---- MODULE Spec2Model ----
(***************************************************************************)
(* lcm-gen Dart back end (lcmgen/emit_dart.c).                             *)
(*                                                                         *)
(* The generator prints, for every struct of the parsed schema, one Dart   *)
(* class with an encode and a decode method.  The model has two layers:    *)
(*   - the generator: what emit_struct / emit_encode_one / emit_dart       *)
(*     print, kept as a small syntax tree of the printed statements;       *)
(*   - the meaning of the printed Dart statements over an LcmBuffer,       *)
(*     used to run the generated encode and decode on instances.           *)
(* Spec runs one generated codec; SpecBatch runs the emit_dart loop over   *)
(* a file system.                                                          *)
(***************************************************************************)
EXTENDS Integers, Sequences, FiniteSets, TLC

VARIABLES
    phase,      \* codec run: "start", "generated", "encoded", "corrupted", "decoded"
    lcm,        \* lcmgen_t: [structs |-> sequence of lcm_struct_t]
    top,        \* index of the struct whose codec is run
    x,          \* the instance handed to encode
    units,      \* the generated Dart units, one per struct
    buf,        \* LcmBuffer contents after encode (sequence of bytes) or an error
    flipped,    \* 0, or the fingerprint bit (1..64) flipped before decode
    res,        \* outcome of decode
    fs,         \* batch run: file system [dirs, files]
    opt,        \* batch run: [mkdir, lazy] options
    bi,         \* batch run: loop index i of emit_dart (0-based)
    bstatus,    \* batch run: [returned, status]: whether emit_dart returned, and what
    blog,       \* batch run: per struct what happened to it
    env         \* batch run: per struct the environment's answers

vars == <<phase, lcm, top, x, units, buf, flipped, res, fs, opt, bi, bstatus, blog, env>>
codecVars == <<phase, lcm, top, x, units, buf, flipped, res>>
batchVars == <<fs, opt, bi, bstatus, blog, env>>

----------------------------------------------------------------------------
\* Bounds of the model.

\* largest runtime length of the variable dimension of a one-dimensional array
MaxN == 3
\* largest runtime length of a variable dimension of a multi-dimensional array
MaxRows == 2
\* longest string value, in code points
MaxStrLen == 2
\* number of structs handed to one run of emit_dart
MaxBatch == 2

----------------------------------------------------------------------------
\* Small helpers on sequences.

RECURSIVE Concat(_)
Concat(ss) == IF Len(ss) = 0 THEN <<>> ELSE Head(ss) \o Concat(Tail(ss))

RECURSIVE Product(_)
Product(ns) == IF ns = <<>> THEN 1 ELSE Head(ns) * Product(Tail(ns))

SeqsUpTo(S, n) == UNION {[1..k -> S] : k \in 0..n}

----------------------------------------------------------------------------
\* Identifiers are sequences of characters, so that to_pascal_case and the
\* strcmp dispatch act on their text.

LowerCase == <<"a","b","c","d","e","f","g","h","i","j","k","l","m",
               "n","o","p","q","r","s","t","u","v","w","x","y","z">>
UpperCase == <<"A","B","C","D","E","F","G","H","I","J","K","L","M",
               "N","O","P","Q","R","S","T","U","V","W","X","Y","Z">>

toupper(c) ==
    IF \E k \in 1..Len(LowerCase) : LowerCase[k] = c
    THEN UpperCase[CHOOSE k \in 1..Len(LowerCase) : LowerCase[k] = c]
    ELSE c

\* the loop of to_pascal_case from position p on
RECURSIVE pascal_loop(_, _, _, _)
pascal_loop(s, p, result, capitalize_next) ==
    IF p > Len(s) THEN result
    ELSE IF s[p] = "_" THEN pascal_loop(s, p + 1, result, TRUE)
    ELSE IF capitalize_next
         THEN pascal_loop(s, p + 1, Append(result, toupper(s[p])), FALSE)
         ELSE pascal_loop(s, p + 1, Append(result, s[p]), FALSE)

to_pascal_case(s) == pascal_loop(s, 1, <<>>, TRUE)

T_int8 == <<"i","n","t","8","_","t">>
T_int16 == <<"i","n","t","1","6","_","t">>
T_int32 == <<"i","n","t","3","2","_","t">>
T_int64 == <<"i","n","t","6","4","_","t">>
T_byte == <<"b","y","t","e">>
T_float == <<"f","l","o","a","t">>
T_double == <<"d","o","u","b","l","e">>
T_string == <<"s","t","r","i","n","g">>
T_boolean == <<"b","o","o","l","e","a","n">>

PrimitiveTypes ==
    {T_int8, T_int16, T_int32, T_int64, T_byte, T_float, T_double, T_string, T_boolean}

D_int == <<"i","n","t">>
D_double == <<"d","o","u","b","l","e">>
D_String == <<"S","t","r","i","n","g">>
D_bool == <<"b","o","o","l">>

map_type_dart(type_name) ==
    IF type_name = T_int8 THEN D_int
    ELSE IF type_name = T_int16 THEN D_int
    ELSE IF type_name = T_int32 THEN D_int
    ELSE IF type_name = T_int64 THEN D_int
    ELSE IF type_name = T_byte THEN D_int
    ELSE IF type_name = T_float THEN D_double
    ELSE IF type_name = T_double THEN D_double
    ELSE IF type_name = T_string THEN D_String
    ELSE IF type_name = T_boolean THEN D_bool
    ELSE type_name

----------------------------------------------------------------------------
\* 64-bit integers that need their full width (the structural hash and the
\* fingerprint) are four 16-bit limbs, least significant first.

Limb == 65536

\* hash << 1 within 64 bits
Shl1(h) ==
    [k \in 1..4 |-> ((h[k] * 2) % Limb) + (IF k > 1 THEN h[k - 1] \div (Limb \div 2) ELSE 0)]

\* (hash >> 63) & 1
Shr63And1(h) == (h[4] \div (Limb \div 2)) % 2

\* a + b within 64 bits, b a small non-negative number
RECURSIVE AddLimbs(_, _, _)
AddLimbs(a, k, carry) ==
    IF k > 4 THEN <<>>
    ELSE <<(a[k] + carry) % Limb>> \o AddLimbs(a, k + 1, (a[k] + carry) \div Limb)

Add64(a, b) == AddLimbs(a, 1, b)

\* the fingerprint without the bit rotated in: hash << 1
FingerprintNoCarryBit(hash) == Shl1(hash)

\* int64_t fingerprint = (ls->hash << 1) + ((ls->hash >> 63) & 1);
Fingerprint(hash) == Add64(Shl1(hash), Shr63And1(hash))

\* "0x%016" PRIx64: sixteen hexadecimal digits, most significant first
HexOfLimb(l) == <<l \div 4096, (l \div 256) % 16, (l \div 16) % 16, l % 16>>
FormatHex16(v) == HexOfLimb(v[4]) \o HexOfLimb(v[3]) \o HexOfLimb(v[2]) \o HexOfLimb(v[1])

\* the Dart integer a sixteen-digit hexadecimal literal denotes
LimbOfHex(d, at) == ((d[at] * 16 + d[at + 1]) * 16 + d[at + 2]) * 16 + d[at + 3]
ParseHex16(d) == <<LimbOfHex(d, 13), LimbOfHex(d, 9), LimbOfHex(d, 5), LimbOfHex(d, 1)>>

----------------------------------------------------------------------------
\* LcmBuffer (package lcm_dart): big-endian fixed-width reads and writes.
\* A buffer is a sequence of bytes; a reader is a position in it.

\* the n low bytes of integer v in two's complement, most significant first
RECURSIVE PutIntBE(_, _)
PutIntBE(v, n) == IF n = 0 THEN <<>> ELSE PutIntBE(v \div 256, n - 1) \o <<v % 256>>

RECURSIVE GetUIntBE(_)
GetUIntBE(b) == IF b = <<>> THEN 0 ELSE GetUIntBE(SubSeq(b, 1, Len(b) - 1)) * 256 + b[Len(b)]

\* signed value of at most four bytes
GetSIntBE(b) == GetUIntBE(<<>> \o Tail(b)) + (IF b[1] >= 128 THEN b[1] - 256 ELSE b[1]) * Product([k \in 1..(Len(b) - 1) |-> 256])

\* getInt64: a value outside the 32-bit range is kept as its eight bytes
GetInt64(b) ==
    IF \/ (\A k \in 1..4 : b[k] = 0) /\ b[5] < 128
       \/ (\A k \in 1..4 : b[k] = 255) /\ b[5] >= 128
    THEN GetSIntBE(SubSeq(b, 5, 8))
    ELSE [wide |-> b]

\* putInt64 / getInt64 of a full-width value held as limbs
PutLimbsBE(v) == PutIntBE(v[4], 2) \o PutIntBE(v[3], 2) \o PutIntBE(v[2], 2) \o PutIntBE(v[1], 2)
GetLimbsBE(b) == <<b[7] * 256 + b[8], b[5] * 256 + b[6], b[3] * 256 + b[4], b[1] * 256 + b[2]>>

\* w bits of v, most significant first, and back
RECURSIVE NatToBits(_, _)
NatToBits(v, w) == IF w = 0 THEN <<>> ELSE NatToBits(v \div 2, w - 1) \o <<v % 2>>

RECURSIVE BitsToNat(_)
BitsToNat(b) == IF b = <<>> THEN 0 ELSE BitsToNat(SubSeq(b, 1, Len(b) - 1)) * 2 + b[Len(b)]

RECURSIVE BitsToBytes(_)
BitsToBytes(b) == IF b = <<>> THEN <<>> ELSE <<BitsToNat(SubSeq(b, 1, 8))>> \o BitsToBytes(SubSeq(b, 9, Len(b)))

BytesToBits(b) == Concat([k \in 1..Len(b) |-> NatToBits(b[k], 8)])

RECURSIVE Log2Floor(_)
Log2Floor(v) == IF v <= 1 THEN 0 ELSE 1 + Log2Floor(v \div 2)

RECURSIVE Pow2(_)
Pow2(e) == IF e = 0 THEN 1 ELSE 2 * Pow2(e - 1)

\* Host doubles of the model are the non-negative integers below 2^25.
\* IEEE-754 binary format with expBits exponent bits and fracBits fraction
\* bits of integer v, rounded to nearest, ties to even.
RoundToFrac(v, fracBits) ==
    LET e == Log2Floor(v) IN
    IF e <= fracBits THEN v
    ELSE LET step == Pow2(e - fracBits)
             low == (v \div step) * step
         IN  IF (v - low) * 2 < step THEN low
             ELSE IF (v - low) * 2 > step THEN low + step
             ELSE IF (low \div step) % 2 = 0 THEN low ELSE low + step

PutIEEE(v, expBits, fracBits) ==
    IF v = 0 THEN [k \in 1..((1 + expBits + fracBits) \div 8) |-> 0]
    ELSE LET r == RoundToFrac(v, fracBits)
             e == Log2Floor(r)
             bias == Pow2(expBits - 1) - 1
             frac == IF e <= fracBits
                     THEN NatToBits(r - Pow2(e), e) \o [k \in 1..(fracBits - e) |-> 0]
                     ELSE NatToBits((r - Pow2(e)) \div Pow2(e - fracBits), fracBits)
         IN  BitsToBytes(<<0>> \o NatToBits(bias + e, expBits) \o frac)

\* the double a stored IEEE value reads back as; a value that is no integer of
\* the model's range is kept as its bytes
GetIEEE(b, expBits, fracBits) ==
    LET bits == BytesToBits(b)
        e == BitsToNat(SubSeq(bits, 2, 1 + expBits)) - (Pow2(expBits - 1) - 1)
        frac == SubSeq(bits, 2 + expBits, Len(bits))
    IN  IF \A k \in 1..Len(bits) : bits[k] = 0 THEN 0
        ELSE IF /\ bits[1] = 0
                /\ e >= 0 /\ e <= 25
                /\ \A k \in 1..fracBits : k > e => frac[k] = 0
             THEN Pow2(e) + (IF e <= fracBits
                             THEN BitsToNat(SubSeq(frac, 1, e))
                             ELSE BitsToNat(frac) * Pow2(e - fracBits))
             ELSE [raw |-> b]

\* utf8.encode / utf8.decode on strings held as sequences of code points
\* (Unicode scalar values below 0x10000)
Utf8OfChar(c) ==
    IF c < 128 THEN <<c>>
    ELSE IF c < 2048 THEN <<192 + (c \div 64), 128 + (c % 64)>>
    ELSE <<224 + (c \div 4096), 128 + ((c \div 64) % 64), 128 + (c % 64)>>

Utf8Encode(str) == Concat([k \in 1..Len(str) |-> Utf8OfChar(str[k])])

RECURSIVE Utf8Decode(_)
Utf8Decode(b) ==
    IF b = <<>> THEN <<>>
    ELSE IF b[1] < 128 THEN <<b[1]>> \o Utf8Decode(Tail(b))
    ELSE IF b[1] >= 192 /\ b[1] < 224 /\ Len(b) >= 2
         THEN <<(b[1] - 192) * 64 + (b[2] % 64)>> \o Utf8Decode(SubSeq(b, 3, Len(b)))
    ELSE IF b[1] >= 224 /\ b[1] < 240 /\ Len(b) >= 3
         THEN <<((b[1] - 224) * 64 + (b[2] % 64)) * 64 + (b[3] % 64)>>
              \o Utf8Decode(SubSeq(b, 4, Len(b)))
    ELSE <<65533>> \o Utf8Decode(Tail(b))

----------------------------------------------------------------------------
\* The parsed schema (lcmgen.h): lcm_struct_t, lcm_member_t, lcm_dimension_t.
\* ld->size is text: a number, or the name of a member.

Lit(n) == [lit |-> TRUE, n |-> n, ref |-> ""]
Ref(name) == [lit |-> FALSE, n |-> 0, ref |-> name]
Member(name, type, dims) == [membername |-> name, lctypename |-> type, dimensions |-> dims]
Struct(name, hash, members) ==
    [shortname |-> name, package |-> <<>>, hash |-> hash, members |-> members]
InPackage(ls, package) ==
    [shortname |-> ls.shortname, package |-> package, hash |-> ls.hash, members |-> ls.members]

----------------------------------------------------------------------------
\* The generator.  A printed statement is kept as a record of what was
\* printed: the LcmBuffer call, the accessor text, the loop headers.

\* emit_encode_one printing the string length without the terminator
emit_encode_one_short_length(type_name, accessor) ==
    IF type_name = T_byte THEN [op |-> "putUint8", acc |-> accessor]
    ELSE IF type_name = T_int8 THEN [op |-> "putInt8", acc |-> accessor]
    ELSE IF type_name = T_int16 THEN [op |-> "putInt16", acc |-> accessor]
    ELSE IF type_name = T_int32 THEN [op |-> "putInt32", acc |-> accessor]
    ELSE IF type_name = T_int64 THEN [op |-> "putInt64", acc |-> accessor]
    ELSE IF type_name = T_float THEN [op |-> "putFloat32", acc |-> accessor]
    ELSE IF type_name = T_double THEN [op |-> "putFloat64", acc |-> accessor]
    ELSE IF type_name = T_string
         THEN [op |-> "utf8block", acc |-> accessor,
               body |-> <<[op |-> "putUint32Len", arg |-> 0],
                          [op |-> "putUint8List", arg |-> 0],
                          [op |-> "putUint8", arg |-> 0]>>]
    ELSE IF type_name = T_boolean THEN [op |-> "putUint8Bool", acc |-> accessor]
    ELSE [op |-> "encodeCall", acc |-> accessor]

\* emit_encode_one: accessor is [name, subs], subs the loop variables i<dim>
\* of its subscripts
emit_encode_one(type_name, accessor) ==
    IF type_name = T_byte THEN [op |-> "putUint8", acc |-> accessor]
    ELSE IF type_name = T_int8 THEN [op |-> "putInt8", acc |-> accessor]
    ELSE IF type_name = T_int16 THEN [op |-> "putInt16", acc |-> accessor]
    ELSE IF type_name = T_int32 THEN [op |-> "putInt32", acc |-> accessor]
    ELSE IF type_name = T_int64 THEN [op |-> "putInt64", acc |-> accessor]
    ELSE IF type_name = T_float THEN [op |-> "putFloat32", acc |-> accessor]
    ELSE IF type_name = T_double THEN [op |-> "putFloat64", acc |-> accessor]
    ELSE IF type_name = T_string
         THEN [op |-> "utf8block", acc |-> accessor,
               body |-> <<[op |-> "putUint32Len", arg |-> 1],
                          [op |-> "putUint8List", arg |-> 0],
                          [op |-> "putUint8", arg |-> 0]>>]
    ELSE IF type_name = T_boolean THEN [op |-> "putUint8Bool", acc |-> accessor]
    ELSE [op |-> "encodeCall", acc |-> accessor]

\* emit_decode_one is defined by the file and called nowhere; the decode
\* method prints its reads by the two inline dispatches below.

\* the scalar dispatch of the decode method
scalar_decode_expr(type_name) ==
    IF type_name = T_byte THEN [op |-> "getUint8"]
    ELSE IF type_name = T_int8 THEN [op |-> "getInt8"]
    ELSE IF type_name = T_int16 THEN [op |-> "getInt16"]
    ELSE IF type_name = T_int32 THEN [op |-> "getInt32"]
    ELSE IF type_name = T_int64 THEN [op |-> "getInt64"]
    ELSE IF type_name = T_float THEN [op |-> "getFloat32"]
    ELSE IF type_name = T_double THEN [op |-> "getFloat64"]
    ELSE IF type_name = T_string THEN [op |-> "utf8closure", lenMinus |-> 1, skip |-> 1]
    ELSE IF type_name = T_boolean THEN [op |-> "getUint8NonZero"]
    ELSE [op |-> "decodeCall", cls |-> map_type_dart(type_name)]

\* the array element dispatch of the decode method
array_decode_expr(type_name) ==
    IF type_name = T_byte THEN [op |-> "getUint8"]
    ELSE IF type_name = T_int8 THEN [op |-> "getInt8"]
    ELSE IF type_name = T_int16 THEN [op |-> "getInt16"]
    ELSE IF type_name = T_int32 THEN [op |-> "getInt32"]
    ELSE IF type_name = T_int64 THEN [op |-> "getInt64"]
    ELSE IF type_name = T_float THEN [op |-> "getFloat32"]
    ELSE IF type_name = T_double THEN [op |-> "getFloat64"]
    ELSE IF type_name = T_string THEN [op |-> "utf8closure", lenMinus |-> 1, skip |-> 1]
    ELSE IF type_name = T_boolean THEN [op |-> "getUint8NonZero"]
    ELSE [op |-> "decodeCall", cls |-> map_type_dart(type_name)]

\* the class name of the unit
emit_class_name(ls) == to_pascal_case(ls.shortname)

\* static const int LCM_FINGERPRINT = 0x...;
emit_fingerprint(ls) == FormatHex16(Fingerprint(ls.hash))

\* field declarations: "<type> <name>;" or "List<..<type>..> <name>;"
emit_fields(ls) ==
    [i \in 1..Len(ls.members) |->
        [type |-> map_type_dart(ls.members[i].lctypename),
         lists |-> Len(ls.members[i].dimensions),
         name |-> ls.members[i].membername]]

\* constructor: "required this.<name>," per member
emit_constructor(ls) == [i \in 1..Len(ls.members) |-> ls.members[i].membername]

\* the loop headers of an array member, innermost dimension printed first
emit_encode_loops_reversed(lm) ==
    [d \in 1..Len(lm.dimensions) |->
        [var |-> Len(lm.dimensions) - d,
         bound |-> lm.dimensions[Len(lm.dimensions) + 1 - d]]]

\* the loop headers of an array member, in the order they are printed
emit_encode_loops(lm) ==
    [d \in 1..Len(lm.dimensions) |-> [var |-> d - 1, bound |-> lm.dimensions[d]]]

\* one member of the encode method
emit_encode_member(lm) ==
    IF Len(lm.dimensions) = 0
    THEN emit_encode_one(lm.lctypename, [name |-> lm.membername, subs |-> <<>>])
    ELSE [op |-> "for",
          loops |-> emit_encode_loops(lm),
          body |-> emit_encode_one(lm.lctypename,
                      [name |-> lm.membername,
                       subs |-> [d \in 1..Len(lm.dimensions) |-> d - 1]])]

\* the encode method with the fingerprint written after the members
emit_encode_method_fingerprint_last(ls) ==
    [i \in 1..Len(ls.members) |-> emit_encode_member(ls.members[i])]
    \o <<[op |-> "putInt64Fingerprint"]>>

\* void encode(LcmBuffer buf) { buf.putInt64(LCM_FINGERPRINT); ... }
emit_encode_method(ls) ==
    <<[op |-> "putInt64Fingerprint"]>>
    \o [i \in 1..Len(ls.members) |-> emit_encode_member(ls.members[i])]

\* one member of the decode method: final <name> = <expr>;
emit_decode_member(lm) ==
    IF Len(lm.dimensions) = 0
    THEN [op |-> "final", name |-> lm.membername, gen |-> <<>>,
          expr |-> scalar_decode_expr(lm.lctypename)]
    ELSE [op |-> "final", name |-> lm.membername,
          gen |-> [d \in 1..Len(lm.dimensions) |-> lm.dimensions[d]],
          expr |-> array_decode_expr(lm.lctypename)]

\* the decode method without the fingerprint check
emit_decode_method_unchecked(ls) ==
    [i \in 1..Len(ls.members) |-> emit_decode_member(ls.members[i])]
    \o <<[op |-> "return",
          args |-> [i \in 1..Len(ls.members) |->
                      [param |-> ls.members[i].membername,
                       local |-> ls.members[i].membername]]]>>

\* static <class> decode(LcmBuffer buf) { check; fields; return <class>(...); }
emit_decode_method(ls) ==
    <<[op |-> "checkFingerprint"]>>
    \o [i \in 1..Len(ls.members) |-> emit_decode_member(ls.members[i])]
    \o <<[op |-> "return",
          args |-> [i \in 1..Len(ls.members) |->
                      [param |-> ls.members[i].membername,
                       local |-> ls.members[i].membername]]]>>

\* everything emit_struct prints for one struct
emit_struct(ls) ==
    [class_name |-> emit_class_name(ls),
     LCM_FINGERPRINT |-> emit_fingerprint(ls),
     fields |-> emit_fields(ls),
     ctor |-> emit_constructor(ls),
     encode |-> emit_encode_method(ls),
     decode |-> emit_decode_method(ls)]

----------------------------------------------------------------------------
\* Meaning of the printed Dart.  An object is [cls |-> index of its class's
\* unit, f |-> field values in declaration order]; a List is a sequence.

DartBuiltinTypes == {D_int, D_double, D_String, D_bool}

\* the unit declaring class ident, or 0
ClassIndex(us, ident) ==
    IF \E k \in 1..Len(us) : us[k].class_name = ident
    THEN CHOOSE k \in 1..Len(us) : us[k].class_name = ident
    ELSE 0

\* every type name a unit mentions (field types, decode targets) names a
\* builtin type or a generated class, and so on for the classes it names
RECURSIVE UnitResolves(_, _)
UnitResolves(us, k) ==
    /\ \A j \in 1..Len(us[k].fields) :
          \/ us[k].fields[j].type \in DartBuiltinTypes
          \/ /\ ClassIndex(us, us[k].fields[j].type) # 0
             /\ UnitResolves(us, ClassIndex(us, us[k].fields[j].type))
    /\ \A j \in 1..Len(us[k].decode) :
          (us[k].decode[j].op = "final" /\ us[k].decode[j].expr.op = "decodeCall")
             => ClassIndex(us, us[k].decode[j].expr.cls) # 0

FieldPos(u, name) == CHOOSE j \in 1..Len(u.fields) : u.fields[j].name = name

GetField(us, obj, name) == obj.f[FieldPos(us[obj.cls], name)]

\* a loop bound inside encode: a literal, or the field it names
EncodeBound(us, obj, size) == IF size.lit THEN size.n ELSE GetField(us, obj, size.ref)

\* the value of a local variable of decode
Local(locals, name) == locals[CHOOSE j \in 1..Len(locals) : locals[j].name = name].v

\* a List.generate length inside decode: a literal, or the local it names
DecodeBound(locals, size) == IF size.lit THEN size.n ELSE Local(locals, size.ref)

RECURSIVE Subscript(_, _, _)
Subscript(v, subs, idx) ==
    IF Len(subs) = 0 THEN v ELSE Subscript(v[idx[Head(subs)] + 1], Tail(subs), idx)

RECURSIVE RunEncode(_, _)
RECURSIVE ExecLoops(_, _, _, _, _)

\* one printed write, applied to the value v its accessor denotes
ExecWrite(us, st, v) ==
    IF st.op = "putUint8" THEN PutIntBE(v, 1)
    ELSE IF st.op = "putInt8" THEN PutIntBE(v, 1)
    ELSE IF st.op = "putInt16" THEN PutIntBE(v, 2)
    ELSE IF st.op = "putInt32" THEN PutIntBE(v, 4)
    ELSE IF st.op = "putInt64" THEN PutIntBE(v, 8)
    ELSE IF st.op = "putFloat32" THEN PutIEEE(v, 8, 23)
    ELSE IF st.op = "putFloat64" THEN PutIEEE(v, 11, 52)
    ELSE IF st.op = "putUint8Bool" THEN PutIntBE(IF v THEN 1 ELSE 0, 1)
    ELSE IF st.op = "utf8block"
         THEN LET bytes == Utf8Encode(v) IN
              Concat([j \in 1..Len(st.body) |->
                  IF st.body[j].op = "putUint32Len"
                  THEN PutIntBE(Len(bytes) + st.body[j].arg, 4)
                  ELSE IF st.body[j].op = "putUint8List" THEN bytes
                  ELSE PutIntBE(st.body[j].arg, 1)])
    ELSE RunEncode(us, v)

\* for (var i<k> = 0; i<k> < bound; i<k>++) { ... } from loop k inwards
ExecLoops(us, st, obj, k, idx) ==
    IF k > Len(st.loops)
    THEN ExecWrite(us, st.body, Subscript(GetField(us, obj, st.body.acc.name), st.body.acc.subs, idx))
    ELSE LET n == EncodeBound(us, obj, st.loops[k].bound)
         IN  Concat([i \in 1..n |->
                 ExecLoops(us, st, obj, k + 1, (st.loops[k].var :> (i - 1)) @@ idx)])

ExecEncodeStmt(us, st, obj) ==
    IF st.op = "putInt64Fingerprint"
    THEN PutLimbsBE(ParseHex16(us[obj.cls].LCM_FINGERPRINT))
    ELSE IF st.op = "for" THEN ExecLoops(us, st, obj, 1, <<>>)
    ELSE ExecWrite(us, st, GetField(us, obj, st.acc.name))

\* obj.encode(buf): the bytes appended to buf
RunEncode(us, obj) ==
    Concat([j \in 1..Len(us[obj.cls].encode) |->
               ExecEncodeStmt(us, us[obj.cls].encode[j], obj)])

\* A read yields [st, pos, v]: st is "ok" or the exception thrown, pos the
\* number of bytes consumed so far.

Thrown(what, pos) == [st |-> what, pos |-> pos, v |-> <<>>]

ReadBytes(b, pos, n) == SubSeq(b, pos + 1, pos + n)

RECURSIVE RunDecode(_, _, _, _)
RECURSIVE ListGenerate(_, _, _, _, _, _)

\* one printed read expression
EvalRead(us, e, b, pos) ==
    LET width == IF e.op \in {"getUint8", "getInt8", "getUint8NonZero"} THEN 1
                 ELSE IF e.op = "getInt16" THEN 2
                 ELSE IF e.op \in {"getInt32", "getFloat32", "utf8closure"} THEN 4
                 ELSE IF e.op \in {"getInt64", "getFloat64"} THEN 8
                 ELSE 0
        raw == ReadBytes(b, pos, width)
    IN
    IF pos + width > Len(b) THEN Thrown("RangeError", pos)
    ELSE IF e.op = "getUint8" THEN [st |-> "ok", pos |-> pos + 1, v |-> GetUIntBE(raw)]
    ELSE IF e.op \in {"getInt8", "getInt16", "getInt32"}
         THEN [st |-> "ok", pos |-> pos + width, v |-> GetSIntBE(raw)]
    ELSE IF e.op = "getInt64" THEN [st |-> "ok", pos |-> pos + 8, v |-> GetInt64(raw)]
    ELSE IF e.op = "getFloat32" THEN [st |-> "ok", pos |-> pos + 4, v |-> GetIEEE(raw, 8, 23)]
    ELSE IF e.op = "getFloat64" THEN [st |-> "ok", pos |-> pos + 8, v |-> GetIEEE(raw, 11, 52)]
    ELSE IF e.op = "getUint8NonZero"
         THEN [st |-> "ok", pos |-> pos + 1, v |-> (GetUIntBE(raw) # 0)]
    ELSE IF e.op = "utf8closure"
         THEN \* len = getUint32(); bytes = getUint8List(len - 1); getUint8();
              IF raw[1] >= 128 THEN Thrown("RangeError", pos + 4)
              ELSE LET n == GetUIntBE(raw) - e.lenMinus IN
                   IF n < 0 \/ n > Len(b) - pos - 4 THEN Thrown("RangeError", pos + 4)
                   ELSE IF pos + 4 + n + e.skip > Len(b) THEN Thrown("RangeError", pos + 4 + n)
                   ELSE [st |-> "ok", pos |-> pos + 4 + n + e.skip,
                         v |-> Utf8Decode(ReadBytes(b, pos + 4, n))]
    ELSE \* <class>.decode(buf)
         LET r == RunDecode(us, ClassIndex(us, e.cls), b, pos)
         IN  [st |-> r.st, pos |-> r.pos, v |-> r.v]

\* List.generate(n, (_) => List.generate(..., (_) => e)): the generator is
\* called for index 0, 1, ... in turn; left counts the calls still to make
ListGenerate(us, sizes, left, e, b, acc) ==
    IF left < 0 THEN Thrown("RangeError", acc.pos)
    ELSE IF left = 0 THEN acc
    ELSE LET r == IF Len(sizes) = 1
                  THEN EvalRead(us, e, b, acc.pos)
                  ELSE ListGenerate(us, Tail(sizes), sizes[2], e, b,
                                    [st |-> "ok", pos |-> acc.pos, v |-> <<>>])
         IN  IF r.st # "ok" THEN r
             ELSE ListGenerate(us, sizes, left - 1, e, b,
                               [st |-> "ok", pos |-> r.pos, v |-> Append(acc.v, r.v)])

\* the statements of a decode method from statement j on; d is
\* [st, pos, locals, order]: order lists the members read, in the order read
RECURSIVE ExecDecodeFrom(_, _, _, _, _)
ExecDecodeFrom(us, k, j, b, d) ==
    LET st == us[k].decode[j] IN
    IF st.op = "checkFingerprint"
    THEN \* final fingerprint = buf.getInt64(); if (fingerprint != LCM_FINGERPRINT) throw
         IF d.pos + 8 > Len(b)
         THEN [st |-> "RangeError", pos |-> d.pos, v |-> <<>>, order |-> d.order]
         ELSE IF GetLimbsBE(ReadBytes(b, d.pos, 8)) # ParseHex16(us[k].LCM_FINGERPRINT)
         THEN [st |-> "InvalidFingerprint", pos |-> d.pos + 8, v |-> <<>>, order |-> d.order]
         ELSE ExecDecodeFrom(us, k, j + 1, b, [d EXCEPT !.pos = d.pos + 8])
    ELSE IF st.op = "final"
    THEN LET sizes == [i \in 1..Len(st.gen) |-> DecodeBound(d.locals, st.gen[i])]
             r == IF Len(sizes) = 0
                  THEN EvalRead(us, st.expr, b, d.pos)
                  ELSE ListGenerate(us, sizes, sizes[1], st.expr, b,
                                    [st |-> "ok", pos |-> d.pos, v |-> <<>>])
         IN  IF r.st # "ok"
             THEN [st |-> r.st, pos |-> r.pos, v |-> <<>>, order |-> Append(d.order, st.name)]
             ELSE ExecDecodeFrom(us, k, j + 1, b,
                     [st |-> "ok", pos |-> r.pos,
                      locals |-> Append(d.locals, [name |-> st.name, v |-> r.v]),
                      order |-> Append(d.order, st.name)])
    ELSE \* return <class>(<param>: <local>, ...);
         [st |-> "ok", pos |-> d.pos, order |-> d.order,
          v |-> [cls |-> k,
                 f |-> [i \in 1..Len(us[k].fields) |->
                          Local(d.locals,
                                st.args[CHOOSE a \in 1..Len(st.args) :
                                           st.args[a].param = us[k].fields[i].name].local)]]]

\* <class k>.decode(buf) with the reader at pos
RunDecode(us, k, b, pos) ==
    ExecDecodeFrom(us, k, 1, b, [st |-> "ok", pos |-> pos, locals |-> <<>>, order |-> <<>>])

----------------------------------------------------------------------------
\* The schemas the codec is run on, and their valid instances.

N_simple_t == <<"s","i","m","p","l","e","_","t">>
N_Ints == <<"I","n","t","s">>
N_text_t == <<"t","e","x","t","_","t">>
N_var_t == <<"v","a","r","_","t">>
N_grid_t == <<"g","r","i","d","_","t">>
N_names_t == <<"n","a","m","e","s","_","t">>
N_Point == <<"P","o","i","n","t">>
N_Outer == <<"O","u","t","e","r">>
N_path_t == <<"p","a","t","h","_","t">>
N_pose_t == <<"p","o","s","e","_","t">>
N_real_t == <<"r","e","a","l","_","t">>
N_tab_t == <<"t","a","b","_","t">>
N_Wp == <<"W","p">>

S_simple_t == Struct(N_simple_t, <<52719, 35243, 17767, 291>>,
                     <<Member("x", T_int32, <<>>)>>)
S_Ints == Struct(N_Ints, <<1, 0, 0, 32768>>,
                 <<Member("a", T_int8, <<>>), Member("b", T_int16, <<>>),
                   Member("c", T_int64, <<>>), Member("d", T_byte, <<>>)>>)
S_text_t == Struct(N_text_t, <<65535, 65535, 65535, 65535>>,
                   <<Member("e", T_boolean, <<>>), Member("s", T_string, <<>>)>>)
S_var_t == Struct(N_var_t, <<32768, 65535, 32767, 16384>>,
                  <<Member("n", T_int32, <<>>), Member("data", T_int32, <<Ref("n")>>)>>)
S_grid_t == Struct(N_grid_t, <<0, 0, 0, 0>>,
                   <<Member("a", T_int16, <<Lit(2), Lit(3)>>)>>)
S_names_t == Struct(N_names_t, <<65535, 65535, 65535, 32767>>,
                    <<Member("names", T_string, <<Lit(2)>>)>>)
S_Point == Struct(N_Point, <<4660, 22136, 39612, 57072>>,
                  <<Member("x", T_int32, <<>>), Member("ok", T_boolean, <<>>)>>)
S_Outer == Struct(N_Outer, <<7, 0, 32768, 49152>>,
                  <<Member("p", N_Point, <<>>), Member("k", T_int8, <<>>)>>)
S_Wp == Struct(N_Wp, <<258, 772, 1286, 34824>>,
               <<Member("v", T_int8, <<>>)>>)
S_path_t == Struct(N_path_t, <<43690, 21845, 43690, 21845>>,
                   <<Member("n", T_int32, <<>>), Member("pts", N_Wp, <<Ref("n")>>)>>)
S_pose_t == Struct(N_pose_t, <<21845, 43690, 21845, 43690>>,
                   <<Member("pos", N_simple_t, <<>>)>>)
S_real_t == Struct(N_real_t, <<0, 32768, 0, 32768>>,
                   <<Member("f", T_float, <<>>), Member("d", T_double, <<>>)>>)
S_tab_t == Struct(N_tab_t, <<65535, 0, 65535, 0>>,
                  <<Member("rows", T_int8, <<>>),
                    Member("m", T_byte, <<Ref("rows"), Lit(2)>>)>>)

\* the parsed schema files: each is the lcm->structs of one run of lcm-gen
Schemas ==
    << <<S_simple_t>>, <<S_Ints>>, <<S_text_t>>, <<S_var_t>>, <<S_grid_t>>,
       <<S_names_t>>, <<S_Point, S_Outer>>, <<S_path_t, S_Wp>>,
       <<S_simple_t, S_pose_t>>, <<S_real_t>>, <<S_tab_t>> >>

StructIndex(structs, name) == CHOOSE k \in 1..Len(structs) : structs[k].shortname = name

MemberIndex(ls, name) == CHOOSE j \in 1..Len(ls.members) : ls.members[j].membername = name

\* the members whose dimensions name member j as their runtime length
DimensionUsers(ls, j) ==
    {i \in 1..Len(ls.members) : \E d \in 1..Len(ls.members[i].dimensions) :
        /\ ~ls.members[i].dimensions[d].lit
        /\ ls.members[i].dimensions[d].ref = ls.members[j].membername}

\* the lengths a member used as a dimension takes
DimensionValues(ls, j) ==
    IF \A i \in DimensionUsers(ls, j) : Len(ls.members[i].dimensions) = 1
    THEN 0..MaxN
    ELSE 0..MaxRows

CodePoints == {104, 105, 233}

\* the strings held by array elements
ElementStrings == {<<>>, <<233>>, <<104, 105>>}

PrimitiveValues(type_name) ==
    IF type_name = T_int8 THEN {-128, 127}
    ELSE IF type_name = T_int16 THEN {-2, 300}
    ELSE IF type_name = T_int32 THEN {42, -1}
    ELSE IF type_name = T_int64 THEN {-1, 70000}
    ELSE IF type_name = T_byte THEN {0, 255}
    ELSE IF type_name = T_float THEN {0, 3, 16777217}
    ELSE IF type_name = T_double THEN {0, 16777217}
    ELSE IF type_name = T_boolean THEN BOOLEAN
    ELSE SeqsUpTo(CodePoints, MaxStrLen)

RECURSIVE ArrayValues(_, _)
ArrayValues(E, sizes) ==
    IF Len(sizes) = 0 THEN E ELSE [1..Head(sizes) -> ArrayValues(E, Tail(sizes))]

RECURSIVE Instances(_, _)
RECURSIVE FieldValues(_, _, _)

\* the values of the first j members of struct k, each array having the extent
\* its dimensions say
FieldValues(structs, k, j) ==
    IF j = 0 THEN {<<>>}
    ELSE LET ls == structs[k]
             lm == ls.members[j]
             elems == IF DimensionUsers(ls, j) # {} THEN DimensionValues(ls, j)
                      ELSE IF lm.lctypename \in PrimitiveTypes
                      THEN IF Len(lm.dimensions) > 0 /\ lm.lctypename = T_string
                           THEN ElementStrings
                           ELSE PrimitiveValues(lm.lctypename)
                      ELSE Instances(structs, StructIndex(structs, lm.lctypename))
         IN  UNION { { Append(f, v) :
                          v \in ArrayValues(elems,
                                   [d \in 1..Len(lm.dimensions) |->
                                       IF lm.dimensions[d].lit THEN lm.dimensions[d].n
                                       ELSE f[MemberIndex(ls, lm.dimensions[d].ref)]]) } :
                     f \in FieldValues(structs, k, j - 1) }

Instances(structs, k) ==
    { [cls |-> k, f |-> f] : f \in FieldValues(structs, k, Len(structs[k].members)) }

----------------------------------------------------------------------------
\* One run of a generated codec.

Running == [returned |-> FALSE, status |-> 0]
Returned(status) == [returned |-> TRUE, status |-> status]

NoBuffer == [st |-> "none", bytes |-> <<>>]
NoResult == [st |-> "none", pos |-> 0, v |-> <<>>, order |-> <<>>]

BatchIdle ==
    /\ fs = <<>> /\ opt = <<>> /\ bi = 0 /\ bstatus = Running /\ blog = <<>> /\ env = <<>>

Init ==
    /\ phase = "start"
    /\ \E file \in 1..Len(Schemas) : lcm = [structs |-> Schemas[file]]
    /\ top \in 1..Len(lcm.structs)
    /\ x \in Instances(lcm.structs, top)
    /\ units = <<>>
    /\ buf = NoBuffer
    /\ flipped = 0
    /\ res = NoResult
    /\ BatchIdle

\* lcm-gen prints the unit of every struct
Generate ==
    /\ phase = "start"
    /\ units' = [k \in 1..Len(lcm.structs) |-> emit_struct(lcm.structs[k])]
    /\ phase' = "generated"
    /\ UNCHANGED <<lcm, top, x, buf, flipped, res>>
    /\ UNCHANGED batchVars

\* x.encode(buf)
Encode ==
    /\ phase = "generated"
    /\ buf' = IF UnitResolves(units, top)
              THEN [st |-> "ok", bytes |-> RunEncode(units, x)]
              ELSE [st |-> "CompileError", bytes |-> <<>>]
    /\ phase' = "encoded"
    /\ UNCHANGED <<lcm, top, x, units, flipped, res>>
    /\ UNCHANGED batchVars

\* bit (1 = most significant) of the fingerprint prefix is flipped in transit
FlipBit ==
    /\ phase = "encoded"
    /\ buf.st = "ok"
    /\ \E bit \in 1..64 :
          /\ flipped' = bit
          /\ buf' = [buf EXCEPT !.bytes =
                        BitsToBytes([i \in 1..64 |->
                            IF i = bit THEN 1 - BytesToBits(SubSeq(buf.bytes, 1, 8))[i]
                            ELSE BytesToBits(SubSeq(buf.bytes, 1, 8))[i]])
                        \o SubSeq(buf.bytes, 9, Len(buf.bytes))]
    /\ phase' = "corrupted"
    /\ UNCHANGED <<lcm, top, x, units, res>>
    /\ UNCHANGED batchVars

\* <top class>.decode(buf)
Decode ==
    /\ phase \in {"encoded", "corrupted"}
    /\ res' = IF buf.st = "ok"
              THEN RunDecode(units, top, buf.bytes, 0)
              ELSE [NoResult EXCEPT !.st = buf.st]
    /\ phase' = "decoded"
    /\ UNCHANGED <<lcm, top, x, units, buf, flipped>>
    /\ UNCHANGED batchVars

Next == Generate \/ Encode \/ FlipBit \/ Decode

Spec == Init /\ [][Next]_vars

----------------------------------------------------------------------------
\* emit_dart over a file system.  Paths are texts; fs.dirs is the set of
\* directories that exist, fs.files[i] the state of the output file of
\* struct i: "absent", "stale" (older than its .lcm file), "current",
\* "written" (a complete unit printed by this run) or "partial".

P_geo == <<"g","e","o">>
P_geo_msgs == <<"g","e","o",".","m","s","g","s">>
P_nav == <<"n","a","v">>
Dot == <<".">>
Slash == <<"/">>
Ext == <<".","g",".","d","a","r","t">>
O_out == <<"o","u","t">>

BatchPool ==
    << InPackage(S_pose_t, P_geo_msgs), S_simple_t,
       InPackage(S_Point, P_geo), InPackage(S_var_t, P_nav) >>

dots_to_slashes(str) == [t \in 1..Len(str) |-> IF str[t] = "." THEN "/" ELSE str[t]]

\* snprintf(path, ..., "%s%s%s%s%s.g.dart", ...), dart_path "" replaced by "."
OutputPath(dart_path, ls) ==
    LET root == IF Len(dart_path) = 0 THEN Dot ELSE dart_path
        package_dir == dots_to_slashes(ls.package)
    IN  root \o (IF Len(root) > 0 THEN Slash ELSE <<>>)
             \o package_dir \o (IF Len(package_dir) > 0 THEN Slash ELSE <<>>)
             \o ls.shortname \o Ext

\* the directory a path lies in; a path without '/' lies in the working
\* directory
ParentDir(path) ==
    IF \E i \in 1..Len(path) : path[i] = "/"
    THEN SubSeq(path, 1, (CHOOSE i \in 1..Len(path) :
                             path[i] = "/" /\ \A j \in (i + 1)..Len(path) : path[j] # "/") - 1)
    ELSE Dot

\* mkdir(dirpath, 0755): creates one directory whose parent exists
mkdir(dirs, dirpath) ==
    IF dirpath \notin dirs /\ Len(dirpath) > 0 /\ ParentDir(dirpath) \in dirs
    THEN dirs \cup {dirpath}
    ELSE dirs

\* the loop of make_dirs_for_file from index i (0-based) on
RECURSIVE make_dirs_loop(_, _, _)
make_dirs_loop(dirs, path, i) ==
    IF i >= Len(path) THEN dirs
    ELSE IF path[i + 1] = "/"
         THEN make_dirs_loop(mkdir(dirs, SubSeq(path, 1, i)), path, i + 2)
         ELSE make_dirs_loop(dirs, path, i + 1)

make_dirs_for_file(dirs, path) == make_dirs_loop(dirs, path, 0)

\* lcm_needs_generation (lcmgen.c): the output is missing or older than its
\* .lcm file
lcm_needs_generation(files, i) == files[i] # "current"

\* emit_struct as seen by the file system: fopen(path, "w") fails when the
\* directory is missing or the environment refuses; the fprintf results and
\* the fclose result are not looked at
emit_struct_io(f, i, path, answer) ==
    IF ParentDir(path) \notin f.dirs \/ answer = "openfail"
    THEN [fs |-> f, status |-> -1, what |-> "openfailed"]
    ELSE IF answer = "writefail"
    THEN [fs |-> [f EXCEPT !.files[i] = "partial"], status |-> 0, what |-> "writefailed"]
    ELSE [fs |-> [f EXCEPT !.files[i] = "written"], status |-> 0, what |-> "written"]

\* the body of the loop of emit_dart for struct i, without the skip
emit_dart_body_no_skip(f, o, structs, i, answer) ==
    LET path == OutputPath(o.dart_path, structs[i])
        made == IF o.mkdir THEN [f EXCEPT !.dirs = make_dirs_for_file(f.dirs, path)] ELSE f
    IN  emit_struct_io(made, i, path, answer)

\* the body of the loop of emit_dart for struct i
emit_dart_body(f, o, structs, i, answer) ==
    LET path == OutputPath(o.dart_path, structs[i])
        made == IF o.mkdir THEN [f EXCEPT !.dirs = make_dirs_for_file(f.dirs, path)] ELSE f
    IN  IF ~lcm_needs_generation(made.files, i)
        THEN [fs |-> made, status |-> 0, what |-> "skipped"]
        ELSE emit_struct_io(made, i, path, answer)

\* every directory above a path
RECURSIVE Ancestors(_)
Ancestors(path) ==
    IF ParentDir(path) = Dot THEN {Dot} ELSE {ParentDir(path)} \cup Ancestors(ParentDir(path))

CodecIdle ==
    /\ phase = "batch" /\ top = 0 /\ x = <<>> /\ units = <<>>
    /\ buf = NoBuffer /\ flipped = 0 /\ res = NoResult

\* a file system as it can be found: a file that exists lies in directories
\* that exist
InitBatch ==
    /\ CodecIdle
    /\ \E n \in 1..MaxBatch : lcm = [structs |-> SubSeq(BatchPool, 1, n)]
    /\ \E m \in BOOLEAN, dp \in {<<>>, O_out} : opt = [mkdir |-> m, dart_path |-> dp]
    /\ env \in [1..Len(lcm.structs) -> {"ok", "openfail", "writefail"}]
    /\ \E files \in [1..Len(lcm.structs) -> {"absent", "stale", "current"}],
          root \in BOOLEAN :
          fs = [files |-> files,
                dirs |-> {Dot}
                         \cup (IF root THEN Ancestors(OutputPath(opt.dart_path, S_simple_t))
                               ELSE {})
                         \cup UNION { Ancestors(OutputPath(opt.dart_path, lcm.structs[i])) :
                                         i \in {j \in 1..Len(lcm.structs) : files[j] # "absent"} }]
    /\ bi = 0
    /\ bstatus = Running
    /\ blog = <<>>

\* one iteration of the loop of emit_dart
EmitDartIteration ==
    /\ ~bstatus.returned
    /\ bi < Len(lcm.structs)
    /\ LET r == emit_dart_body(fs, opt, lcm.structs, bi + 1, env[bi + 1]) IN
          /\ fs' = r.fs
          /\ blog' = Append(blog, r.what)
          /\ IF r.status # 0
             THEN bstatus' = Returned(r.status) /\ bi' = bi
             ELSE bstatus' = bstatus /\ bi' = bi + 1
    /\ UNCHANGED <<opt, env>>
    /\ UNCHANGED codecVars

\* the loop of emit_dart ends: return 0
EmitDartReturn ==
    /\ ~bstatus.returned
    /\ bi = Len(lcm.structs)
    /\ bstatus' = Returned(0)
    /\ UNCHANGED <<fs, opt, bi, blog, env>>
    /\ UNCHANGED codecVars

NextBatch == EmitDartIteration \/ EmitDartReturn

SpecBatch == InitBatch /\ [][NextBatch]_vars

----------------------------------------------------------------------------
\* The wire format the properties are stated against, written from the
\* schema alone: it does not look at the generated code.

HashBits(h) ==
    NatToBits(h[4], 16) \o NatToBits(h[3], 16) \o NatToBits(h[2], 16) \o NatToBits(h[1], 16)

\* rotation to the left by one bit
RotL1(bits) == Tail(bits) \o <<Head(bits)>>

WireFingerprint(ls) == BitsToBytes(RotL1(HashBits(ls.hash)))

RECURSIVE ByteLen(_)
ByteLen(str) ==
    IF Len(str) = 0 THEN 0
    ELSE (IF Head(str) < 128 THEN 1 ELSE IF Head(str) < 2048 THEN 2 ELSE 3) + ByteLen(Tail(str))

StringWire(str) == PutIntBE(ByteLen(str) + 1, 4) \o Utf8Encode(str) \o <<0>>

\* element k (0-based) of array v in row-major order
RECURSIVE ElementAt(_, _, _)
ElementAt(v, sizes, k) ==
    IF Len(sizes) = 0 THEN v
    ELSE ElementAt(v[(k \div Product(Tail(sizes))) + 1], Tail(sizes), k % Product(Tail(sizes)))

RowMajor(v, sizes) == [k \in 1..Product(sizes) |-> ElementAt(v, sizes, k - 1)]

DimSizes(ls, j, f) ==
    [d \in 1..Len(ls.members[j].dimensions) |->
        IF ls.members[j].dimensions[d].lit THEN ls.members[j].dimensions[d].n
        ELSE f[MemberIndex(ls, ls.members[j].dimensions[d].ref)]]

RECURSIVE WireBody(_, _, _, _)

\* one element; a nested struct carries its own fingerprint iff nestedFP
WireElem(structs, type_name, v, nestedFP) ==
    IF type_name \in {T_int8, T_byte} THEN PutIntBE(v, 1)
    ELSE IF type_name = T_int16 THEN PutIntBE(v, 2)
    ELSE IF type_name = T_int32 THEN PutIntBE(v, 4)
    ELSE IF type_name = T_int64 THEN PutIntBE(v, 8)
    ELSE IF type_name = T_float THEN PutIEEE(v, 8, 23)
    ELSE IF type_name = T_double THEN PutIEEE(v, 11, 52)
    ELSE IF type_name = T_boolean THEN (IF v THEN <<1>> ELSE <<0>>)
    ELSE IF type_name = T_string THEN StringWire(v)
    ELSE (IF nestedFP THEN WireFingerprint(structs[StructIndex(structs, type_name)]) ELSE <<>>)
         \o WireBody(structs, StructIndex(structs, type_name), v.f, nestedFP)

WireMember(structs, k, j, f, nestedFP) ==
    LET flat == RowMajor(f[j], DimSizes(structs[k], j, f)) IN
    Concat([e \in 1..Len(flat) |->
               WireElem(structs, structs[k].members[j].lctypename, flat[e], nestedFP)])

WireBody(structs, k, f, nestedFP) ==
    Concat([j \in 1..Len(structs[k].members) |-> WireMember(structs, k, j, f, nestedFP)])

WireMessage(structs, k, obj, nestedFP) ==
    WireFingerprint(structs[k]) \o WireBody(structs, k, obj.f, nestedFP)

\* where member j starts in the message of the top-level struct
RECURSIVE MemberOffset(_, _, _, _)
MemberOffset(structs, k, j, f) ==
    IF j = 1 THEN 8
    ELSE MemberOffset(structs, k, j - 1, f) + Len(WireMember(structs, k, j - 1, f, TRUE))

TopStruct == lcm.structs[top]
EncodedOk == phase \in {"encoded", "decoded"} /\ flipped = 0 /\ buf.st = "ok"
DecodedIntact == phase = "decoded" /\ flipped = 0 /\ buf.st = "ok"

----------------------------------------------------------------------------
\* C1. Round trip: decode of the bytes encode produced for a valid instance
\* returns an instance equal to it, member by member, and consumes exactly
\* the bytes encode produced.
C1_RoundTrip ==
    (phase = "decoded" /\ flipped = 0)
        => /\ res.st = "ok"
           /\ res.v = x
           /\ res.pos = Len(buf.bytes)

\* C2. Fail-closed decode: when the first 8 bytes of the buffer differ from
\* the transformed fingerprint of the type, decode ends in the mismatch
\* exception having consumed exactly 8 bytes, with no member read and no
\* instance returned; a flipped prefix bit always ends so.
C2_FailClosed ==
    (phase = "decoded" /\ buf.st = "ok")
        => /\ (SubSeq(buf.bytes, 1, 8) # WireFingerprint(TopStruct))
                 => /\ res.st = "InvalidFingerprint"
                    /\ res.pos = 8
                    /\ res.order = <<>>
                    /\ res.v = <<>>
           /\ (flipped # 0) => res.st = "InvalidFingerprint"

C2_Witness ==
    /\ phase = "decoded"
    /\ flipped = 64
    /\ Len(buf.bytes) > 8
    /\ res.st = "InvalidFingerprint"

\* C3. Message envelope: encode writes the 8 fingerprint bytes, then each
\* member's encoding once, in declared order, with nothing between them;
\* decode reads the members in declared order; a struct with the single
\* member int32 x = 42 is the fingerprint followed by 00 00 00 2A and decodes
\* to x = 42.
C3_Envelope ==
    /\ phase = "generated" => RunEncode(units, x) = WireMessage(lcm.structs, top, x, TRUE)
    /\ EncodedOk => buf.bytes = WireMessage(lcm.structs, top, x, TRUE)
    /\ DecodedIntact =>
          /\ res.st = "ok"
          /\ res.order = [j \in 1..Len(TopStruct.members) |-> TopStruct.members[j].membername]
    /\ (EncodedOk /\ TopStruct = S_simple_t /\ x.f = <<42>>)
          => buf.bytes = WireFingerprint(S_simple_t) \o <<0, 0, 0, 42>>
    /\ (DecodedIntact /\ TopStruct = S_simple_t /\ x.f = <<42>>) => res.v.f = <<42>>

C3_Witness ==
    /\ DecodedIntact
    /\ TopStruct = S_simple_t
    /\ x.f = <<42>>
    /\ res.st = "ok"
    /\ Len(buf.bytes) = 12

\* C4. Fingerprint transform: the LCM_FINGERPRINT constant of every unit is
\* the structural hash rotated left by one bit within 64 bits; encode writes
\* that value first, and decode accepts a prefix exactly when it is that
\* value.
C4_Fingerprint ==
    /\ phase # "start" =>
          \A k \in 1..Len(units) :
              Concat([d \in 1..16 |-> NatToBits(units[k].LCM_FINGERPRINT[d], 4)])
                  = RotL1(HashBits(lcm.structs[k].hash))
    /\ EncodedOk => BytesToBits(SubSeq(buf.bytes, 1, 8)) = RotL1(HashBits(TopStruct.hash))
    /\ (phase = "decoded" /\ buf.st = "ok") =>
          ((res.st = "InvalidFingerprint")
              <=> (BytesToBits(SubSeq(buf.bytes, 1, 8)) # RotL1(HashBits(TopStruct.hash))))

C4_Witness ==
    /\ phase = "decoded"
    /\ flipped = 0
    /\ TopStruct.hash[4] >= 32768
    /\ res.st = "ok"

\* C5. Nested struct framing: a struct-typed member is written in place as
\* the nested struct's member encodings, without the nested fingerprint, so
\* the fingerprint occurs once, at the start of the message.
C5_NestedFraming ==
    EncodedOk => buf.bytes = WireMessage(lcm.structs, top, x, FALSE)

C7_StringFraming ==
    /\ (EncodedOk /\ TopStruct = S_text_t) =>
          /\ SubSeq(buf.bytes, 10, Len(buf.bytes)) = StringWire(x.f[2])
          /\ Len(buf.bytes) = 9 + ByteLen(x.f[2]) + 5
          /\ x.f[2] = <<104, 105>> =>
                SubSeq(buf.bytes, 10, Len(buf.bytes)) = <<0, 0, 0, 3, 104, 105, 0>>
    /\ (DecodedIntact /\ TopStruct = S_text_t) =>
          /\ res.st = "ok"
          /\ res.v.f[2] = x.f[2]
          /\ res.pos = Len(buf.bytes)
    /\ (EncodedOk /\ TopStruct = S_names_t) =>
          /\ SubSeq(buf.bytes, 9, Len(buf.bytes))
                = StringWire(x.f[1][1]) \o StringWire(x.f[1][2])
          /\ Len(buf.bytes) = 8 + ByteLen(x.f[1][1]) + 5 + ByteLen(x.f[1][2]) + 5
    /\ (DecodedIntact /\ TopStruct = S_names_t) =>
          /\ res.st = "ok"
          /\ res.v.f[1] = x.f[1]
          /\ res.pos = Len(buf.bytes)

C7_Witness ==
    /\ DecodedIntact
    /\ TopStruct = S_names_t
    /\ x.f[1] = <<(<<233>>), (<<104, 105>>)>>
    /\ res.v.f[1] = x.f[1]
    /\ Len(buf.bytes) = 8 + 7 + 7

\* C8. Batch abort on I/O failure: when opening or writing the output of
\* a struct fails, emit_dart stops at that struct with a non-zero status and
\* handles no later struct; without such a failure it handles every struct
\* once, in order, and returns 0.
C8_AbortOnIOFailure ==
    bstatus.returned =>
        LET failed == {i \in 1..Len(blog) : blog[i] \in {"openfailed", "writefailed"}} IN
        IF failed # {}
        THEN /\ bstatus.status # 0
             /\ \A i \in failed : i = Len(blog)
        ELSE /\ bstatus.status = 0
             /\ Len(blog) = Len(lcm.structs)

\* C9. Incremental skip: for a struct whose output the needs-generation check
\* finds current, emit_dart changes nothing in the file system, leaves the
\* status as it is and goes on to the next struct.
C9_SkipHasNoEffect ==
    [][(/\ ~bstatus.returned
        /\ bi < Len(lcm.structs)
        /\ ~lcm_needs_generation(fs.files, bi + 1))
          => (fs' = fs /\ bstatus' = bstatus /\ bi' = bi + 1)]_vars

C9_Witness ==
    /\ opt.mkdir
    /\ Len(blog) = 2
    /\ blog[1] = "skipped"
    /\ fs.files[1] = "current"
    /\ blog[2] = "written"
    /\ bstatus = Returned(0)

\* C10. Cross-struct names: the identifier a unit uses for a struct-typed
\* member (its field type, its decode call) is the class name of the unit
\* generated for that struct.
C10_NamesAgree ==
    phase # "start" =>
        \A k \in 1..Len(lcm.structs) : \A j \in 1..Len(lcm.structs[k].members) :
            lcm.structs[k].members[j].lctypename \notin PrimitiveTypes =>
                LET target == units[StructIndex(lcm.structs, lcm.structs[k].members[j].lctypename)]
                IN  /\ units[k].fields[j].type = target.class_name
                    /\ units[k].decode[j + 1].expr.cls = target.class_name

====
